---- MODULE Spec2Model ----
(***************************************************************************)
(* Account service of the acme2certifier ACME server (acme/account.py)     *)
(* together with the collaborators it calls: the nonce pool, the message   *)
(* envelope check and the account store.  Requests are handled by          *)
(* independent workers; a worker first runs Message.check on the request   *)
(* it received and then the rest of Account.new / Account.parse, whose     *)
(* single store call is the point where workers interleave.  The WSGI      *)
(* dispatcher (examples/acme2certifier_wsgi.py) is modelled on top of the  *)
(* same store: the version check at load time, then application routing    *)
(* one HTTP request after the other to its callback.                       *)
(***************************************************************************)
EXTENDS Integers, Sequences, FiniteSets, TLC

\* ------------------------------------------------------------------ bounds
\* number of nonces the pool issues in one behaviour
MaxNonce == 4
\* number of account names generate_random_string hands out in one behaviour
MaxNames == 2

Workers == {"w1", "w2"}

\* ------------------------------------------------------- values and helpers
None == "None"

server_name == "http://acme.srv"

\* self.path_dic = {'acct_path' : '/acme/acct/'}
acct_path == "/acme/acct/"

badNonce == "urn:ietf:params:acme:error:badNonce"
malformed == "urn:ietf:params:acme:error:malformed"
unauthorized == "urn:ietf:params:acme:error:unauthorized"
accountDoesNotExist == "urn:ietf:params:acme:error:accountDoesNotExist"
userActionRequired == "urn:ietf:params:acme:error:userActionRequired"
invalidContact == "urn:ietf:params:acme:error:invalidContact"

\* the account keys clients use: one RSA key (has a modulus n), one EC key
RsaKey == [kty |-> "RSA", n |-> "n1", e |-> "AQAB"]
EcKey == [kty |-> "EC", crv |-> "P-256", x |-> "x1", y |-> "y1"]
Keys == {RsaKey, EcKey}

AlgOf(jwk) == IF jwk.kty = "RSA" THEN "RS256" ELSE "ES256"

\* json.dumps / json.loads: a value and its JSON text are different values
json_dumps(v) == <<"json", v>>
json_loads(s) == s[2]

\* RFC 7638 thumbprint: the required members of the key, in canonical order
Thumbprint(jwk) ==
    IF jwk.kty = "RSA" THEN <<"RSA", jwk.e, jwk.n>>
    ELSE <<"EC", jwk.crv, jwk.x, jwk.y>>

\* generate_random_string: the i-th fresh name
NameOf(i) == "acct" \o ToString(i)
Names == {NameOf(i) : i \in 1..MaxNames}

\* '{0}{1}{2}'.format(self.server_name, self.path_dic['acct_path'], message)
AcctUrl(name) == <<server_name, acct_path, name>>

\* the kid of a request is the account URL; its last component is the name
name_get(kid) == kid[3]

St(code, message, detail, accts) ==
    [code |-> code, message |-> message, detail |-> detail, accounts |-> accts]

\* ------------------------------------------------------------------ payloads
GoodContact == <<"mailto:a@example.org">>
BadContact == <<"mailto:nobody">>

\* payloads of newAccount requests, with the keys Account.new reads
NewPayloads ==
    { [termsofserviceagreed |-> TRUE, contact |-> GoodContact],
      [termsofserviceagreed |-> FALSE, contact |-> GoodContact],
      [contact |-> GoodContact],
      [termsofserviceagreed |-> TRUE],
      [termsofserviceagreed |-> TRUE, contact |-> BadContact],
      [termsofserviceagreed |-> TRUE, contact |-> <<>>],
      [termsofserviceagreed |-> FALSE],
      [onlyreturnexisting |-> TRUE],
      [onlyreturnexisting |-> FALSE, termsofserviceagreed |-> TRUE,
       contact |-> GoodContact] }

\* JSON values of the status member: strings and a number
JStr(s) == [t |-> "str", v |-> s]
JNum(s) == [t |-> "num", v |-> s]

\* payloads of requests to the account URL
ParsePayloads ==
    { [status |-> JStr("deactivated")],
      [status |-> JStr("Deactivated")],
      [status |-> JStr("valid")],
      [status |-> JNum("1")],
      [contact |-> GoodContact] }

\* str.lower() on the strings that occur
lower(s) == IF s = "Deactivated" THEN "deactivated" ELSE s

\* ', '.join(content['contact'])
RECURSIVE join(_)
join(list) ==
    IF Len(list) = 0 THEN ""
    ELSE IF Len(list) = 1 THEN list[1]
    ELSE list[1] \o ", " \o join(Tail(list))

\* ------------------------------------------------------------ account store
\* A record of the account table is the data_dic Account.add builds:
\* [name, alg, jwk, contact], jwk and contact as JSON text.

KeyOf(rec) == Thumbprint(json_loads(rec.jwk))

\* DBstore.account_add(data_dic) -> (name, new): insert keyed on the JWK
\* thumbprint; an existing record with the same key is returned instead
account_add(accts, data_dic) ==
    LET exists == {a \in accts : KeyOf(a) = KeyOf(data_dic)}
    IN  IF exists # {}
        THEN [accounts |-> accts,
              db_name |-> (CHOOSE a \in exists : TRUE).name, new |-> FALSE]
        ELSE [accounts |-> accts \cup {data_dic},
              db_name |-> data_dic.name, new |-> TRUE]

\* DBstore.account_lookup(column, string), called with column 'modulus'
account_lookup(accts, column, string) ==
    LET hits == {a \in accts : /\ column = "modulus"
                               /\ "n" \in DOMAIN json_loads(a.jwk)
                               /\ json_loads(a.jwk).n = string}
    IN  IF hits = {} THEN [found |-> FALSE, name |-> None]
        ELSE [found |-> TRUE, name |-> (CHOOSE a \in hits : TRUE).name]

\* DBstore.account_delete(aname): delete of the record CRUD, keyed by name
account_delete(accts, aname) ==
    [accounts |-> {a \in accts : a.name # aname},
     result |-> \E a \in accts : a.name = aname]

\* helper.validate_email: every contact of the list is a well-formed mailto
\* address; that the list is not empty is what Account.add looks at
validate_email(contact_list) ==
    \A i \in 1..Len(contact_list) : contact_list[i] = "mailto:a@example.org"

\* ---------------------------------------------------------- message envelope
\* Message.check(content, skip_signature_check): consume the nonce, resolve
\* the key (embedded jwk, or the account the kid names), verify the signature.
\* Yields (code, message, detail, protected, payload, account_name) and the
\* nonce pool after the check.
check(pool, accts, content, skip_signature_check) ==
    LET protected == content.protected
        fail(c, m, d, p) ==
            [code |-> c, message |-> m, detail |-> d, protected |-> protected,
             payload |-> content.payload, account_name |-> None, nonces |-> p]
        consumed == pool \ {protected.nonce}
    IN  IF protected.nonce \notin pool
        THEN fail(400, badNonce, None, pool)
        ELSE IF skip_signature_check
        THEN [code |-> 200, message |-> None, detail |-> None,
              protected |-> protected, payload |-> content.payload,
              account_name |-> None, nonces |-> consumed]
        ELSE IF "kid" \notin DOMAIN protected
        THEN fail(400, malformed, "kid missing", consumed)
        ELSE LET aname == name_get(protected.kid)
                 recs == {a \in accts : a.name = aname}
             IN  IF recs = {}
                 THEN fail(400, accountDoesNotExist, None, consumed)
                 ELSE IF content.signature # json_loads((CHOOSE a \in recs : TRUE).jwk)
                 THEN fail(401, unauthorized, "invalid signature", consumed)
                 ELSE [code |-> 200, message |-> None, detail |-> None,
                       protected |-> protected, payload |-> content.payload,
                       account_name |-> aname, nonces |-> consumed]

\* Message.prepare_response(response_dic, status_dic): set the code, add a
\* fresh Replay-Nonce header, and put the problem document into the body of
\* every response whose code is neither 200 nor 201
prepare_response(response_dic, status_dic, nonce) ==
    [code |-> status_dic.code,
     header |-> [Location |-> response_dic.header.Location, ReplayNonce |-> nonce],
     data |-> IF status_dic.code \in {200, 201} THEN response_dic.data
              ELSE [kind |-> "problem", status |-> status_dic.code,
                    type |-> status_dic.message, detail |-> status_dic.detail]]

\* response_dic = {}
EmptyResponse == [data |-> [kind |-> "unset"], header |-> [Location |-> <<>>]]

\* --------------------------------------------------------- Account (account.py)
\* tos_check, taking a payload without the member for an agreement
tos_check_absent_agrees(content) ==
    IF "termsofserviceagreed" \in DOMAIN content
    THEN IF content.termsofserviceagreed
         THEN [code |-> 200, message |-> None, detail |-> None]
         ELSE [code |-> 403, message |-> userActionRequired, detail |-> "tosfalse"]
    ELSE [code |-> 200, message |-> None, detail |-> None]

tos_check(content) ==
    IF "termsofserviceagreed" \in DOMAIN content
    THEN IF content.termsofserviceagreed
         THEN [code |-> 200, message |-> None, detail |-> None]
         ELSE [code |-> 403, message |-> userActionRequired, detail |-> "tosfalse"]
    ELSE [code |-> 403, message |-> userActionRequired, detail |-> "tosfalse"]

contact_check(content) ==
    IF "contact" \in DOMAIN content
    THEN IF validate_email(content.contact)
         THEN [code |-> 200, message |-> None, detail |-> None]
         ELSE [code |-> 400, message |-> invalidContact,
               detail |-> join(content.contact)]
    ELSE [code |-> 400, message |-> invalidContact,
          detail |-> "no contacts specified"]

\* add, answering a re-registration with the name it generated itself
add_generated_name(accts, content, contact, account_name) ==
    IF "alg" \in DOMAIN content /\ "jwk" \in DOMAIN content /\ Len(contact) > 0
    THEN LET data_dic == [name |-> account_name,
                          alg |-> content.alg,
                          jwk |-> json_dumps(content.jwk),
                          contact |-> json_dumps(contact)]
             r == account_add(accts, data_dic)
         IN  IF r.new
             THEN St(201, account_name, None, r.accounts)
             ELSE St(200, account_name, None, r.accounts)
    ELSE St(400, malformed, "incomplete protectedpayload", accts)

\* add, inserting the record without asking the store for the key first
add_plain_insert(accts, content, contact, account_name) ==
    IF "alg" \in DOMAIN content /\ "jwk" \in DOMAIN content /\ Len(contact) > 0
    THEN LET data_dic == [name |-> account_name,
                          alg |-> content.alg,
                          jwk |-> json_dumps(content.jwk),
                          contact |-> json_dumps(contact)]
         IN  St(201, account_name, None, accts \cup {data_dic})
    ELSE St(400, malformed, "incomplete protectedpayload", accts)

\* add, storing the record before it finds the request incomplete
add_incomplete_inserts(accts, content, contact, account_name) ==
    LET data_dic == [name |-> account_name,
                     alg |-> content.alg,
                     jwk |-> json_dumps(content.jwk),
                     contact |-> json_dumps(contact)]
        r == account_add(accts, data_dic)
    IN  IF "alg" \in DOMAIN content /\ "jwk" \in DOMAIN content /\ Len(contact) > 0
        THEN IF r.new
             THEN St(201, account_name, None, r.accounts)
             ELSE St(200, r.db_name, None, r.accounts)
        ELSE St(400, malformed, "incomplete protectedpayload",
                IF "alg" \in DOMAIN content /\ "jwk" \in DOMAIN content
                THEN r.accounts ELSE accts)

add(accts, content, contact, account_name) ==
    IF "alg" \in DOMAIN content /\ "jwk" \in DOMAIN content /\ Len(contact) > 0
    THEN LET data_dic == [name |-> account_name,
                          alg |-> content.alg,
                          jwk |-> json_dumps(content.jwk),
                          contact |-> json_dumps(contact)]
             r == account_add(accts, data_dic)
         IN  IF r.new
             THEN St(201, account_name, None, r.accounts)
             ELSE St(200, r.db_name, None, r.accounts)
    ELSE St(400, malformed, "incomplete protectedpayload", accts)

delete(accts, aname) ==
    LET r == account_delete(accts, aname)
    IN  IF r.result
        THEN St(200, None, None, r.accounts)
        ELSE St(400, accountDoesNotExist, "deletion failed", r.accounts)

onlyreturnexisting(accts, protected, payload) ==
    IF payload.onlyreturnexisting
    THEN IF "jwk" \in DOMAIN protected
         THEN IF "n" \in DOMAIN protected.jwk
              THEN LET result == account_lookup(accts, "modulus", protected.jwk.n)
                   IN  IF result.found
                       THEN St(200, result.name, None, accts)
                       ELSE St(400, accountDoesNotExist, None, accts)
              ELSE St(400, malformed, "n value missing", accts)
         ELSE St(400, malformed, "jwk structure missing", accts)
    ELSE St(400, userActionRequired, "onlyReturnExisting must be true", accts)

\* new_status, going on whatever code Message.check returned
new_status_unchecked(accts, chk, account_name) ==
    LET payload == chk.payload
        protected == chk.protected
    IN  IF "onlyreturnexisting" \in DOMAIN payload
        THEN onlyreturnexisting(accts, protected, payload)
        ELSE LET t == tos_check(payload)
                 c == IF t.code = 200 THEN contact_check(payload) ELSE t
             IN  IF c.code = 200
                 THEN add(accts, protected, payload.contact, account_name)
                 ELSE St(c.code, c.message, c.detail, accts)

\* new_status, looking at the contact before the terms of service
new_status_contact_first(accts, chk, account_name) ==
    LET payload == chk.payload
        protected == chk.protected
    IN  IF chk.code = 200
        THEN IF "onlyreturnexisting" \in DOMAIN payload
             THEN onlyreturnexisting(accts, protected, payload)
             ELSE LET c == contact_check(payload)
                      t == IF c.code = 200 THEN tos_check(payload) ELSE c
                  IN  IF t.code = 200
                      THEN add(accts, protected, payload.contact, account_name)
                      ELSE St(t.code, t.message, t.detail, accts)
        ELSE St(chk.code, chk.message, chk.detail, accts)

\* Account.new, the checks: the status triple and the store after them,
\* given what Message.check returned
new_status(accts, chk, account_name) ==
    LET payload == chk.payload
        protected == chk.protected
    IN  IF chk.code = 200
        THEN IF "onlyreturnexisting" \in DOMAIN payload
             THEN onlyreturnexisting(accts, protected, payload)
             ELSE LET t == tos_check(payload)
                      c == IF t.code = 200 THEN contact_check(payload) ELSE t
                  IN  IF c.code = 200
                      THEN add(accts, protected, payload.contact, account_name)
                      ELSE St(c.code, c.message, c.detail, accts)
        ELSE St(chk.code, chk.message, chk.detail, accts)

\* new_response, with the account object in the body of a 200 as well
new_response_body_always(s, payload) ==
    IF s.code = 200 \/ s.code = 201
    THEN [data |-> [kind |-> "account", status |-> "valid",
                    contact |-> IF "contact" \in DOMAIN payload
                                THEN payload.contact ELSE <<>>,
                    orders |-> AcctUrl(s.message) \o <<"/orders">>],
          header |-> [Location |-> AcctUrl(s.message)]]
    ELSE EmptyResponse

\* Account.new, the response_dic for the status s
new_response(s, payload) ==
    IF s.code = 200 \/ s.code = 201
    THEN [data |-> IF s.code = 201
                   THEN [kind |-> "account", status |-> "valid",
                         contact |-> payload.contact,
                         orders |-> AcctUrl(s.message) \o <<"/orders">>]
                   ELSE [kind |-> "empty"],
          header |-> [Location |-> AcctUrl(s.message)]]
    ELSE EmptyResponse

\* Account.new after Message.check returned chk: the store after the call,
\* the response_dic and the status_dic handed to prepare_response
new(accts, chk, account_name) ==
    LET s == new_status(accts, chk, account_name)
        detail == IF s.code \notin {200, 201} /\ s.detail = "tosfalse"
                  THEN "Terms of service must be accepted"
                  ELSE s.detail
    IN  [raised |-> FALSE, accounts |-> s.accounts,
         response_dic |-> new_response(s, chk.payload),
         status_dic |-> [code |-> s.code, message |-> s.message, detail |-> detail]]

\* parse_status, deleting an account other than the one check resolved
\* whenever the store holds one
parse_status_other_account(accts, chk) ==
    LET payload == chk.payload
        others == {b \in accts : b.name # chk.account_name}
        victim == IF others = {} THEN chk.account_name
                  ELSE (CHOOSE b \in others : TRUE).name
    IN  IF chk.code = 200
        THEN IF "status" \in DOMAIN payload
             THEN IF lower(payload.status.v) = "deactivated"
                  THEN delete(accts, victim)
                  ELSE St(400, malformed, "status attribute without sense", accts)
             ELSE St(400, malformed, "dont know what to do with this request", accts)
        ELSE St(chk.code, chk.message, chk.detail, accts)

\* Account.parse, the checks: the status triple and the store after them
parse_status(accts, chk) ==
    LET payload == chk.payload
    IN  IF chk.code = 200
        THEN IF "status" \in DOMAIN payload
             THEN IF lower(payload.status.v) = "deactivated"
                  THEN delete(accts, chk.account_name)
                  ELSE St(400, malformed, "status attribute without sense", accts)
             ELSE St(400, malformed, "dont know what to do with this request", accts)
        ELSE St(chk.code, chk.message, chk.detail, accts)

\* Account.parse after Message.check returned chk; payload['status'].lower()
\* raises AttributeError when the status member is not a string
parse(accts, chk) ==
    LET payload == chk.payload
        raises == /\ chk.code = 200
                  /\ "status" \in DOMAIN payload
                  /\ payload.status.t # "str"
        s == parse_status(accts, chk)
        response_dic ==
            IF chk.code = 200 /\ s.code = 200
            THEN [data |-> [kind |-> "payload", payload |-> payload],
                  header |-> [Location |-> <<>>]]
            ELSE EmptyResponse
    IN  IF raises
        THEN [raised |-> TRUE, accounts |-> accts, response_dic |-> EmptyResponse,
              status_dic |-> [code |-> 500, message |-> None, detail |-> "AttributeError"]]
        ELSE [raised |-> FALSE, accounts |-> s.accounts, response_dic |-> response_dic,
              status_dic |-> [code |-> s.code, message |-> s.message, detail |-> s.detail]]

\* --------------------------------------------------------------------- state
VARIABLES
    accounts,     \* the account table of the store
    nonces,       \* the nonce pool: issued and not yet consumed
    nextNonce,    \* the next nonce the pool generates
    nextName,     \* the next name generate_random_string returns
    pc,           \* per worker: "idle", or "checked" after Message.check
    cur,          \* per worker: the request in hand and what check returned
    resp,         \* the response sent last, with the request it answers
    loc201,       \* history: per key, the Location of the latest 201
    deactivated,  \* history: names whose deactivation was answered 200
    passed,       \* history: per nonce, how many requests passed check with it
    phase,        \* the server process: "boot", "serving" or "refused"
    dbversion,    \* the schema version the store persists
    certificates, \* the certificate table of the store
    out,          \* what the dispatcher did with the HTTP request handled last
    CONFIG        \* the configuration load_config() returned when the module loaded

vars == <<accounts, nonces, nextNonce, nextName, pc, cur, resp, loc201, deactivated, passed,
          phase, dbversion, certificates, out, CONFIG>>

\* the state of the service layer under one worker, and that of the HTTP layer
core == <<pc, cur, resp, loc201, deactivated, passed>>
http == <<phase, dbversion, certificates, out, CONFIG>>

\* the configuration without a [Directory] section, and the one whose
\* [Directory] section sets url_prefix
CONFIG_plain == [DEFAULT |-> [debug |-> FALSE]]
CONFIG_url_prefix(url_prefix) ==
    [DEFAULT |-> [debug |-> FALSE], Directory |-> [url_prefix |-> url_prefix]]

\* acme_srv.version.__dbversion__, the schema version the code works with
dbversion_expected == "current"
DbVersions == {"current", "outdated"}

NoRequest == [kind |-> "none"]
NoResponse == [kind |-> "none"]

RegPayload == [termsofserviceagreed |-> TRUE, contact |-> GoodContact]
DeactivatePayload == [status |-> JStr("deactivated")]
\* terms of service refused and no contact
NeitherPayload == [termsofserviceagreed |-> FALSE]

NewRequest(k, n, p) ==
    [ep |-> "newaccount",
     protected |-> [alg |-> AlgOf(k), nonce |-> n, url |-> "newaccount", jwk |-> k],
     payload |-> p, signature |-> k]

\* a newAccount request whose protected header names a kid instead of a jwk
NewRequestKid(n, p) ==
    [ep |-> "newaccount",
     protected |-> [alg |-> AlgOf(RsaKey), nonce |-> n, url |-> "newaccount",
                    kid |-> AcctUrl(NameOf(1))],
     payload |-> p, signature |-> RsaKey]

\* a request to the account URL of a, signed with key k
AcctRequest(k, n, a, p) ==
    [ep |-> "acct",
     protected |-> [alg |-> AlgOf(k), nonce |-> n, url |-> "acct", kid |-> AcctUrl(a)],
     payload |-> p, signature |-> k]

\* The requests a client can send.  A nonce is either in the pool, or was
\* issued and consumed, or (0) was never issued.  A request the envelope
\* check rejects is never looked into, so those are enumerated with the
\* payload that would change the store if it were let through and, for
\* newAccount, once with the payload NeitherPayload that fails every later check.
Requests ==
    LET stale == (0..(nextNonce - 1)) \ nonces
        all == { NewRequest(k, n, p) : k \in Keys, n \in nonces, p \in NewPayloads }
               \cup { NewRequestKid(n, p) : n \in nonces,
                                            p \in {RegPayload, [onlyreturnexisting |-> TRUE]} }
               \cup { NewRequest(k, n, RegPayload) : k \in Keys, n \in stale }
               \cup { NewRequest(RsaKey, 0, NeitherPayload) }
               \cup { AcctRequest(k, n, a, p) : k \in Keys, n \in nonces, a \in Names,
                                                p \in ParsePayloads }
               \cup { AcctRequest(k, n, a, DeactivatePayload) :
                          k \in Keys, n \in stale, a \in Names }
    IN  { c \in all : \/ c.payload \in {RegPayload, DeactivatePayload, NeitherPayload}
                      \/ check(nonces, accounts, c, c.ep = "newaccount").code = 200 }

\* the requests of Requests that register a key or deactivate an account
CoreRequests ==
    { c \in Requests : /\ c.payload \in {RegPayload, DeactivatePayload}
                       /\ "jwk" \in DOMAIN c.protected \/ c.ep = "acct" }

\* the store and the workers when the process is created
InitCore ==
    /\ accounts = {}
    /\ nonces = {}
    /\ nextNonce = 1
    /\ nextName = 1
    /\ pc = [w \in Workers |-> "idle"]
    /\ cur = [w \in Workers |-> NoRequest]
    /\ resp = NoResponse
    /\ loc201 = [k \in Keys |-> <<>>]
    /\ deactivated = {}
    /\ passed = [n \in 0..MaxNonce |-> 0]
    /\ certificates = {}
    /\ out = NoResponse

\* the service layer of a server that has started on a store of its version
Init ==
    /\ InitCore
    /\ phase = "serving"
    /\ dbversion = dbversion_expected
    /\ CONFIG = CONFIG_plain

\* GET or HEAD /acme/newnonce: Nonce.generate_and_add()
newnonce ==
    /\ nextNonce <= MaxNonce
    /\ nonces' = nonces \cup {nextNonce}
    /\ nextNonce' = nextNonce + 1
    /\ UNCHANGED <<accounts, nextName, pc, cur, resp, loc201, deactivated, passed>>
    /\ UNCHANGED http

InFlight == {v \in Workers : pc[v] = "checked"}

\* a registration the envelope check let through
IsRegistration(c) ==
    /\ c.kind = "request"
    /\ c.content.ep = "newaccount"
    /\ c.code = 200
    /\ "jwk" \in DOMAIN c.protected
    /\ c.payload = RegPayload

\* a worker takes a request and runs Message.check on it (account.py:108, 187);
\* Account.new passes skip_signature_check = True
MessageCheck(w, requests) ==
    /\ pc[w] = "idle"
    /\ nextNonce + Cardinality(InFlight) <= MaxNonce
    /\ \E content \in requests :
         LET chk == check(nonces, accounts, content, content.ep = "newaccount")
         IN  /\ nonces' = chk.nonces
             /\ cur' = [cur EXCEPT ![w] =
                          [kind |-> "request", content |-> content,
                           nonce_ok |-> content.protected.nonce \in nonces,
                           peerLoc |-> {},
                           code |-> chk.code, message |-> chk.message,
                           detail |-> chk.detail, protected |-> chk.protected,
                           payload |-> chk.payload,
                           account_name |-> chk.account_name]]
             /\ passed' = IF chk.code = 200
                          THEN [passed EXCEPT ![content.protected.nonce] = @ + 1]
                          ELSE passed
    /\ pc' = [pc EXCEPT ![w] = "checked"]
    /\ UNCHANGED <<accounts, nextNonce, nextName, resp, loc201, deactivated>>
    /\ UNCHANGED http

\* the response of worker w, with the request it answers, what check had
\* returned for it and whether the handler changed the account table
Answer(w, r) ==
    [kind |-> "response", worker |-> w, content |-> cur[w].content,
     chk |-> [code |-> cur[w].code, message |-> cur[w].message,
              detail |-> cur[w].detail, account_name |-> cur[w].account_name],
     nonce_ok |-> cur[w].nonce_ok, peerLoc |-> cur[w].peerLoc,
     changed |-> r.accounts # accounts, raised |-> r.raised,
     response |-> IF r.raised
                  THEN [code |-> 500, header |-> [Location |-> <<>>, ReplayNonce |-> 0],
                        data |-> [kind |-> "unset"]]
                  ELSE prepare_response(r.response_dic, r.status_dic, nextNonce)]

\* the worker sends the response; prepare_response has generated a nonce
\* unless the handler raised
Reply(w, r) ==
    /\ resp' = Answer(w, r)
    /\ pc' = [pc EXCEPT ![w] = "idle"]
    /\ IF r.raised
       THEN UNCHANGED <<nonces, nextNonce>>
       ELSE /\ nonces' = nonces \cup {nextNonce}
            /\ nextNonce' = nextNonce + 1

\* the rest of Account.new (account.py:110-145)
AccountNew(w) ==
    /\ pc[w] = "checked"
    /\ cur[w].content.ep = "newaccount"
    /\ LET r == new(accounts, cur[w], NameOf(nextName))
           created == r.accounts # accounts
           success == r.status_dic.code \in {200, 201}
           loc == r.response_dic.header.Location
       IN  /\ created => nextName <= MaxNames
           /\ accounts' = r.accounts
           /\ nextName' = IF created THEN nextName + 1 ELSE nextName
           /\ loc201' = IF r.status_dic.code = 201 /\ "jwk" \in DOMAIN cur[w].protected
                        THEN [loc201 EXCEPT ![cur[w].protected.jwk] = loc]
                        ELSE loc201
           /\ cur' = [v \in Workers |->
                        IF v = w THEN NoRequest
                        ELSE IF /\ success
                                /\ IsRegistration(cur[w])
                                /\ IsRegistration(cur[v])
                                /\ cur[v].protected.jwk = cur[w].protected.jwk
                             THEN [cur[v] EXCEPT !.peerLoc = @ \cup {loc}]
                             ELSE cur[v]]
           /\ Reply(w, r)
    /\ UNCHANGED <<deactivated, passed>>
    /\ UNCHANGED http

\* the rest of Account.parse (account.py:188-208)
AccountParse(w) ==
    /\ pc[w] = "checked"
    /\ cur[w].content.ep = "acct"
    /\ LET r == parse(accounts, cur[w])
       IN  /\ accounts' = r.accounts
           /\ deactivated' = IF r.status_dic.code = 200
                             THEN deactivated \cup {name_get(cur[w].content.protected.kid)}
                             ELSE deactivated
           /\ Reply(w, r)
    /\ cur' = [cur EXCEPT ![w] = NoRequest]
    /\ UNCHANGED <<nextName, loc201, passed>>
    /\ UNCHANGED http

\* one worker handles one request after the other, of every kind
Next ==
    \/ newnonce
    \/ MessageCheck("w1", Requests)
    \/ AccountNew("w1")
    \/ AccountParse("w1")

Spec == Init /\ [][Next]_vars

\* independent workers handle registrations and deactivations concurrently
NextConc ==
    \/ newnonce
    \/ \E w \in Workers : MessageCheck(w, CoreRequests)
    \/ \E w \in Workers : AccountNew(w)
    \/ \E w \in Workers : AccountParse(w)

SpecConc == Init /\ [][NextConc]_vars

\* ------------------------------------- dispatcher (acme2certifier_wsgi.py)
\* A path is a sequence of characters; the name that ends the path of an
\* account or of a certificate is one symbol of the alphabet.
acme_ == <<"a", "c", "m", "e", "/">>
directory_ == <<"d", "i", "r", "e", "c", "t", "o", "r", "y">>
acct_ == <<"a", "c", "c", "t">>
authz_ == <<"a", "u", "t", "h", "z">>
cert_ == <<"c", "e", "r", "t">>
chall_ == <<"c", "h", "a", "l", "l">>
key_change_ == <<"k", "e", "y", "-", "c", "h", "a", "n", "g", "e">>
newaccount_ == <<"n", "e", "w", "a", "c", "c", "o", "u", "n", "t">>
newnonce_ == <<"n", "e", "w", "n", "o", "n", "c", "e">>
neworders_ == <<"n", "e", "w", "o", "r", "d", "e", "r", "s">>
order_ == <<"o", "r", "d", "e", "r">>
revokecert_ == <<"r", "e", "v", "o", "k", "e", "c", "e", "r", "t">>
trigger_ == <<"t", "r", "i", "g", "g", "e", "r">>

\* the regular expressions of URLS: ^lit, ^lit$ (end) and ^li(t)?$ (opt)
Re(lit, end, opt) == [lit |-> lit, end |-> end, opt |-> opt]

\* re.search(regex, path) is not None
re_search(regex, path) ==
    LET lits == IF regex.opt
                THEN {regex.lit, SubSeq(regex.lit, 1, Len(regex.lit) - 1)}
                ELSE {regex.lit}
    IN  \E l \in lits :
          IF regex.end THEN path = l
          ELSE Len(path) >= Len(l) /\ SubSeq(path, 1, Len(l)) = l

URLS ==
    << [regex |-> Re(<<>>, TRUE, FALSE), callback |-> "directory"],
       [regex |-> Re(acme_ \o acct_, FALSE, FALSE), callback |-> "acct"],
       [regex |-> Re(acme_ \o authz_, FALSE, FALSE), callback |-> "authz"],
       [regex |-> Re(acme_ \o cert_, FALSE, FALSE), callback |-> "cert"],
       [regex |-> Re(acme_ \o chall_, FALSE, FALSE), callback |-> "chall"],
       [regex |-> Re(acme_ \o key_change_, FALSE, FALSE), callback |-> "acct"],
       [regex |-> Re(acme_ \o newaccount_, TRUE, FALSE), callback |-> "newaccount"],
       [regex |-> Re(acme_ \o newnonce_, TRUE, FALSE), callback |-> "newnonce"],
       [regex |-> Re(acme_ \o neworders_, TRUE, FALSE), callback |-> "neworders"],
       [regex |-> Re(acme_ \o order_, FALSE, FALSE), callback |-> "order"],
       [regex |-> Re(acme_ \o revokecert_, FALSE, FALSE), callback |-> "revokecert"],
       [regex |-> Re(directory_, TRUE, TRUE), callback |-> "directory"],
       [regex |-> Re(trigger_, FALSE, FALSE), callback |-> "trigger"] >>

\* str.lstrip(chars): drop leading characters as long as they are in chars
RECURSIVE lstrip(_, _)
lstrip(s, chars) ==
    IF s # <<>> /\ Head(s) \in chars THEN lstrip(Tail(s), chars) ELSE s

\* the prefix application strips: '/', or url_prefix + '/' when configured
prefix(config) ==
    IF "Directory" \in DOMAIN config /\ "url_prefix" \in DOMAIN config.Directory
    THEN config.Directory.url_prefix \o <<"/">>
    ELSE <<"/">>

\* the callback of the first entry of URLS that matches, else not_found
Route(path) ==
    LET hits == {i \in 1..Len(URLS) : re_search(URLS[i].regex, path)}
    IN  IF hits = {} THEN "not_found"
        ELSE URLS[CHOOSE i \in hits : \A j \in hits : i <= j].callback

HTTP_CODE_DIC ==
    [c \in {200, 201, 400, 401, 403, 404, 405, 500} |->
        CASE c = 200 -> "Created"
          [] c = 201 -> "OK"
          [] c = 400 -> "Bad Request"
          [] c = 401 -> "Unauthorized"
          [] c = 403 -> "Forbidden"
          [] c = 404 -> "Not Found"
          [] c = 405 -> "Method Not Allowed"
          [] c = 500 -> "serverInternal "]

Methods == {"GET", "HEAD", "POST"}

\* an empty request body
NoBody == [kind |-> "empty"]

\* the name of the certificate issued to an account
CertName(a) == "cert-" \o a

\* a POST-as-GET for a certificate: the url names it, the kid the requester
CertRequest(k, n, a, c) ==
    [ep |-> "cert",
     protected |-> [alg |-> AlgOf(k), nonce |-> n, url |-> c, kid |-> AcctUrl(a)],
     payload |-> <<>>, signature |-> k]

\* a request in the envelope to one of the other services
ServiceRequest(ep, k, n, a) ==
    [ep |-> ep,
     protected |-> [alg |-> AlgOf(k), nonce |-> n, url |-> ep, kid |-> AcctUrl(a)],
     payload |-> <<>>, signature |-> k]

Path(tail) == <<"/">> \o tail

\* the paths of URLS that end in a name, and the others that clients ask for
AcctPath(a) == Path(acme_ \o acct_ \o <<"/", a>>)
CertPath(c) == Path(acme_ \o cert_ \o <<"/", c>>)
KeyChangePath == Path(acme_ \o key_change_)
NewAccountPath == Path(acme_ \o newaccount_)
ServicePaths ==
    [authz |-> Path(acme_ \o authz_ \o <<"/", "x">>),
     chall |-> Path(acme_ \o chall_ \o <<"/", "x">>),
     neworders |-> Path(acme_ \o neworders_),
     order |-> Path(acme_ \o order_ \o <<"/", "x">>),
     revokecert |-> Path(acme_ \o revokecert_),
     trigger |-> Path(trigger_)]
OtherPaths ==
    { <<"/">>, Path(directory_), Path(acme_ \o newnonce_), Path(acme_ \o <<"x">>) }
Paths ==
    { AcctPath(a) : a \in Names } \cup { CertPath(CertName(a)) : a \in Names }
    \cup { KeyChangePath, NewAccountPath }
    \cup { ServicePaths[s] : s \in DOMAIN ServicePaths } \cup OtherPaths

\* the url_prefix values an operator configures, and the configurations
UrlPrefixes == { <<"/", "x">>, <<"/", "a", "p", "i">> }
Configs == {CONFIG_plain} \cup { CONFIG_url_prefix(P) : P \in UrlPrefixes }

\* what is in front of the paths of a server with the given configuration
Mount(config) == LET p == prefix(config) IN SubSeq(p, 1, Len(p) - 1)

\* the paths clients ask a server with the given configuration for: the paths
\* above under its url_prefix, and newaccount with the slash doubled
PathsUnder ==
    [config \in Configs |->
        { Mount(config) \o p : p \in Paths }
        \cup { Mount(config) \o <<"/">> \o NewAccountPath }]
AllPaths == UNION { PathsUnder[config] : config \in Configs }

Environ(method, path, body) ==
    [REQUEST_METHOD |-> method, PATH_INFO |-> path, body |-> body]

\* every method on every path, without a body
NoBodyEnvirons == { Environ(m, p, NoBody) : m \in Methods, p \in Paths }

\* The requests that arrive.  Every method on every path without a body; in
\* the envelope, POSTs to the endpoint the body is made for, and the same
\* bodies sent to the account URLs with GET.
Environs ==
    LET issued == 0..(nextNonce - 1)
        known == {a.name : a \in accounts}
        key(a) == json_loads((CHOOSE b \in accounts : b.name = a).jwk)
    IN  NoBodyEnvirons
        \cup { Environ("POST", NewAccountPath, NewRequest(k, n, RegPayload)) :
                  k \in Keys, n \in issued }
        \cup UNION { { Environ(m, p, AcctRequest(k, n, a, s)) :
                          m \in {"POST", "GET"}, p \in {AcctPath(a), KeyChangePath},
                          k \in Keys, n \in nonces,
                          s \in {DeactivatePayload, [status |-> JNum("1")]} } :
                      a \in known }
        \cup { Environ("POST", CertPath(CertName(o)), CertRequest(key(a), n, a, CertName(o))) :
                  n \in nonces, a \in known, o \in Names }
        \cup { Environ("POST", ServicePaths[s], ServiceRequest(s, key(a), n, a)) :
                  s \in DOMAIN ServicePaths, n \in nonces, a \in known }

store == <<accounts, nonces, nextNonce, nextName, certificates>>

\* '{0} {1}'.format(code, HTTP_CODE_DIC[code])
Status(code) == <<code, HTTP_CODE_DIC[code]>>

\* what start_response and the returned body hand to the server: status,
\* headers and body, with the request, the callback that handled it, the
\* service method it called, the account the envelope check resolved and
\* whether the store changed
Http(environ, callback, status, headers, body, service, account, changed) ==
    [kind |-> "http", method |-> environ.REQUEST_METHOD, path |-> environ.PATH_INFO,
     callback |-> callback, status |-> status, headers |-> headers, body |-> body,
     service |-> service, account |-> account, changed |-> changed,
     exc |-> None]

\* the callback ended with an exception; neither the callback nor application
\* catches it, so it leaves the dispatcher and no response has been emitted
Raised(environ, callback, service, exc, changed) ==
    [kind |-> "exception", method |-> environ.REQUEST_METHOD,
     path |-> environ.PATH_INFO, callback |-> callback, service |-> service,
     exc |-> exc, changed |-> changed]

\* response_dic['header'].items()
HeaderItems(header) ==
    (IF header.Location # <<>> THEN << <<"Location", header.Location>> >> ELSE <<>>)
    \o << <<"Replay-Nonce", header.ReplayNonce>> >>

create_header(items, add_json_header) ==
    (IF add_json_header THEN << <<"Content-Type", "application/json">> >> ELSE <<>>)
    \o items

\* Message.check on the raw body: an empty body does not decode (step 1)
check_body(body, skip_signature_check) ==
    IF body = NoBody
    THEN [code |-> 400, message |-> malformed, detail |-> "decoding failed",
          protected |-> <<>>, payload |-> <<>>, account_name |-> None,
          nonces |-> nonces]
    ELSE check(nonces, accounts, body, skip_signature_check)

\* the answer of a service that is not part of the model: what the envelope
\* check returned, and on success an object the model does not look into
service_call(chk) ==
    [raised |-> FALSE,
     response_dic |-> IF chk.code = 200
                      THEN [data |-> [kind |-> "object"], header |-> [Location |-> <<>>]]
                      ELSE EmptyResponse,
     status_dic |-> [code |-> chk.code, message |-> chk.message, detail |-> chk.detail]]

\* the else branch of the callbacks that look at REQUEST_METHOD
wrong_method(environ, callback, expected) ==
    /\ out' = Http(environ, callback, Status(405),
                   << <<"Content-Type", "application/json">> >>,
                   [kind |-> "plain", status |-> 405, message |-> HTTP_CODE_DIC[405],
                    detail |-> "Wrong request type. Expected " \o expected],
                   "none", None, FALSE)
    /\ UNCHANGED store

\* the callback after the service method returned r for the envelope chk:
\* prepare_response has added the nonce, create_header builds the headers
respond(environ, callback, service, chk, r, changed) ==
    IF r.raised
    THEN /\ nonces' = chk.nonces
         /\ UNCHANGED nextNonce
         /\ out' = Raised(environ, callback, service, r.status_dic.detail, changed)
    ELSE /\ nextNonce <= MaxNonce
         /\ nonces' = chk.nonces \cup {nextNonce}
         /\ nextNonce' = nextNonce + 1
         /\ LET response == prepare_response(r.response_dic, r.status_dic, nextNonce)
            IN  out' = Http(environ, callback, Status(response.code),
                            create_header(HeaderItems(response.header), TRUE),
                            response.data, service, chk.account_name, changed)

\* a callback that accepts POST only and calls a service outside the model
post_only(environ, callback, service) ==
    IF environ.REQUEST_METHOD = "POST"
    THEN LET chk == check_body(environ.body, FALSE)
         IN  /\ UNCHANGED <<accounts, nextName, certificates>>
             /\ respond(environ, callback, service, chk, service_call(chk), FALSE)
    ELSE wrong_method(environ, callback, "POST.")

\* a GET that a service outside the model answers without the envelope
plain_get(environ, callback, service) ==
    /\ out' = Http(environ, callback, Status(200),
                   << <<"Content-Type", "application/json">> >>,
                   [kind |-> "object"], service, None, FALSE)
    /\ UNCHANGED store

acct(environ) ==
    LET chk == check_body(environ.body, FALSE)
        r == parse(accounts, chk)
    IN  /\ accounts' = r.accounts
        /\ UNCHANGED <<nextName, certificates>>
        /\ respond(environ, "acct", "Account.parse", chk, r, r.accounts # accounts)

authz(environ) ==
    IF environ.REQUEST_METHOD = "POST" \/ environ.REQUEST_METHOD = "GET"
    THEN IF environ.REQUEST_METHOD = "POST"
         THEN post_only(environ, "authz", "Authorization.new_post")
         ELSE plain_get(environ, "authz", "Authorization.new_get")
    ELSE wrong_method(environ, "authz", "POST.")

newaccount(environ) ==
    IF environ.REQUEST_METHOD = "POST"
    THEN LET chk == check_body(environ.body, TRUE)
             r == new(accounts, chk, NameOf(nextName))
             created == r.accounts # accounts
         IN  /\ created => nextName <= MaxNames
             /\ accounts' = r.accounts
             /\ nextName' = IF created THEN nextName + 1 ELSE nextName
             /\ UNCHANGED certificates
             /\ respond(environ, "newaccount", "Account.new", chk, r, created)
    ELSE wrong_method(environ, "newaccount", "POST.")

directory(environ) ==
    /\ out' = Http(environ, "directory", <<200, "OK">>,
                   << <<"Content-Type", "application/json">> >>,
                   [kind |-> "object"], "Directory.directory_get", None, FALSE)
    /\ UNCHANGED store

\* A record of the certificate table: [name, owner, pem]; owner is the name
\* of the account whose order the certificate was issued for.
\* Certificate.new_post(content): the chain of the certificate the url of
\* the envelope names, for the account that owns it
new_post(certs, chk) ==
    LET hits == {c \in certs : c.name = chk.protected.url}
    IN  IF chk.code # 200
        THEN [response_dic |-> EmptyResponse,
              status_dic |-> [code |-> chk.code, message |-> chk.message,
                              detail |-> chk.detail]]
        ELSE IF hits # {} /\ (CHOOSE c \in hits : TRUE).owner = chk.account_name
        THEN [response_dic |-> [data |-> [kind |-> "pem",
                                          pem |-> (CHOOSE c \in hits : TRUE).pem],
                                header |-> [Location |-> <<>>]],
              status_dic |-> [code |-> 200, message |-> None, detail |-> None]]
        ELSE [response_dic |-> EmptyResponse,
              status_dic |-> [code |-> 403, message |-> unauthorized,
                              detail |-> "not the owner"]]

\* Certificate.new_get(url): the chain of the certificate the url names; the
\* url is all the method is given
new_get(certs, url) ==
    LET hits == {c \in certs : c.name = url[Len(url)]}
    IN  IF hits # {}
        THEN [code |-> 200,
              header |-> << <<"Content-Type", "application/pem-certificate-chain">> >>,
              data |-> [kind |-> "pem", pem |-> (CHOOSE c \in hits : TRUE).pem]]
        ELSE [code |-> 403, header |-> <<>>,
              data |-> [kind |-> "problem", status |-> 403, type |-> unauthorized,
                        detail |-> "no such certificate"]]

\* cert: response_dic['data'].encode('utf-8') needs a string, and the data
\* of an error response is the problem document
cert(environ) ==
    IF environ.REQUEST_METHOD = "POST"
    THEN LET chk == check_body(environ.body, FALSE)
             r == new_post(certificates, chk)
             response == prepare_response(r.response_dic, r.status_dic, nextNonce)
             headers == create_header(
                            (IF response.code = 200
                             THEN << <<"Content-Type", "application/pem-certificate-chain">> >>
                             ELSE <<>>) \o HeaderItems(response.header), FALSE)
         IN  /\ nextNonce <= MaxNonce
             /\ nonces' = chk.nonces \cup {nextNonce}
             /\ nextNonce' = nextNonce + 1
             /\ UNCHANGED <<accounts, nextName, certificates>>
             /\ out' = IF response.data.kind = "pem"
                       THEN Http(environ, "cert", Status(response.code), headers,
                                 response.data, "Certificate.new_post",
                                 chk.account_name, FALSE)
                       ELSE Raised(environ, "cert", "Certificate.new_post",
                                   "AttributeError", FALSE)
    ELSE IF environ.REQUEST_METHOD = "GET"
    THEN LET response_dic == new_get(certificates, environ.PATH_INFO)
         IN  /\ out' = Http(environ, "cert", Status(response_dic.code),
                            create_header(response_dic.header, TRUE),
                            response_dic.data, "Certificate.new_get", None, FALSE)
             /\ UNCHANGED store
    ELSE wrong_method(environ, "cert", "POST.")

chall(environ) ==
    IF environ.REQUEST_METHOD = "GET"
    THEN plain_get(environ, "chall", "Challenge.get")
    ELSE post_only(environ, "chall", "Challenge.parse")

\* the callback newnonce of the dispatcher
newnonce_callback(environ) ==
    IF environ.REQUEST_METHOD \in {"HEAD", "GET"}
    THEN /\ nextNonce <= MaxNonce
         /\ nonces' = nonces \cup {nextNonce}
         /\ nextNonce' = nextNonce + 1
         /\ UNCHANGED <<accounts, nextName, certificates>>
         /\ out' = Http(environ, "newnonce",
                        IF environ.REQUEST_METHOD = "HEAD" THEN <<200, "OK">>
                        ELSE <<204, "No content">>,
                        << <<"Content-Type", "text/plain">>,
                           <<"Replay-Nonce", nextNonce>> >>,
                        [kind |-> "none"], "Nonce.generate_and_add", None, FALSE)
    ELSE wrong_method(environ, "newnonce", "HEAD or GET.")

neworders(environ) == post_only(environ, "neworders", "Order.new")

\* order: Order.parse finalizes the order of the account that signed and
\* stores the certificate issued for it
order(environ) ==
    IF environ.REQUEST_METHOD = "POST"
    THEN LET chk == check_body(environ.body, FALSE)
             issued == IF chk.code = 200
                       THEN certificates \cup
                               {[name |-> CertName(chk.account_name),
                                 owner |-> chk.account_name,
                                 pem |-> "PEM for " \o chk.account_name]}
                       ELSE certificates
         IN  /\ certificates' = issued
             /\ UNCHANGED <<accounts, nextName>>
             /\ respond(environ, "order", "Order.parse", chk, service_call(chk),
                        issued # certificates)
    ELSE wrong_method(environ, "order", "POST.")

revokecert(environ) == post_only(environ, "revokecert", "Certificate.revoke")

trigger(environ) == post_only(environ, "trigger", "Trigger.parse")

not_found(environ) ==
    /\ out' = Http(environ, "not_found", <<404, "NOT FOUND">>,
                   << <<"Content-Type", "text/plain">> >>,
                   [kind |-> "plain", status |-> 404, message |-> HTTP_CODE_DIC[404],
                    detail |-> "Not Found"],
                   "none", None, FALSE)
    /\ UNCHANGED store

\* what application makes of each path: the prefix stripped from PATH_INFO,
\* then the callback of the first entry of URLS that matches
Callbacks ==
    [config \in Configs |->
        [p \in AllPaths |->
            LET chars == {prefix(config)[i] : i \in 1..Len(prefix(config))}
            IN  Route(lstrip(p, chars))]]

\* application: call the callback for PATH_INFO
application(environ) ==
    /\ phase = "serving"
    /\ LET callback == Callbacks[CONFIG][environ.PATH_INFO]
       IN  \/ callback = "directory" /\ directory(environ)
           \/ callback = "acct" /\ acct(environ)
           \/ callback = "authz" /\ authz(environ)
           \/ callback = "cert" /\ cert(environ)
           \/ callback = "chall" /\ chall(environ)
           \/ callback = "newaccount" /\ newaccount(environ)
           \/ callback = "newnonce" /\ newnonce_callback(environ)
           \/ callback = "neworders" /\ neworders(environ)
           \/ callback = "order" /\ order(environ)
           \/ callback = "revokecert" /\ revokecert(environ)
           \/ callback = "trigger" /\ trigger(environ)
           \/ callback = "not_found" /\ not_found(environ)
    /\ UNCHANGED core
    /\ UNCHANGED <<phase, dbversion, CONFIG>>

\* dbversion_check, logging the mismatch and going on
dbversion_check_logs_only(stored, version) == TRUE

\* Housekeeping.dbversion_check(version): passes when the store persists the
\* version the code works with, and raises otherwise
dbversion_check(stored, version) == stored = version

\* the module is loaded: the version check runs before application exists;
\* when it raises the load fails and no request is handed to application
startup ==
    /\ phase = "boot"
    /\ phase' = IF dbversion_check(dbversion, dbversion_expected)
                THEN "serving" ELSE "refused"
    /\ UNCHANGED <<dbversion, certificates, out, CONFIG>>
    /\ UNCHANGED <<accounts, nonces, nextNonce, nextName>>
    /\ UNCHANGED core

InitHttp ==
    /\ InitCore
    /\ phase = "boot"
    /\ dbversion \in DbVersions
    /\ CONFIG = CONFIG_plain

\* the server starts and then answers one HTTP request after the other
NextHttp ==
    \/ startup
    \/ \E environ \in Environs : application(environ)

SpecHttp == InitHttp /\ [][NextHttp]_vars

\* every method on every path of a server of each configuration, without a body
MountedEnvirons ==
    [config \in Configs |->
        { Environ(m, p, NoBody) : m \in Methods, p \in PathsUnder[config] }]

\* a server of any of the configurations, on a store of its version
InitPrefix ==
    /\ InitCore
    /\ phase = "boot"
    /\ dbversion = dbversion_expected
    /\ CONFIG \in Configs

\* the server starts and answers the requests made under its url_prefix
NextPrefix ==
    \/ startup
    \/ \E environ \in MountedEnvirons[CONFIG] : application(environ)

SpecPrefix == InitPrefix /\ [][NextPrefix]_vars

\* -------------------------------------------------------------- properties
Answered == resp.kind = "response"

\* the step in which worker w sends the response to the request it has in hand
ReplyStep(w) == pc[w] = "checked" /\ pc'[w] = "idle"

\* the accounts of the store registered under key k
Registered(accts, k) == {a \in accts : KeyOf(a) = Thumbprint(k)}

\* resp answers a valid registration: the envelope check passed, the
\* protected header has alg and jwk, ToS is agreed and the contact is valid
RegistrationAnswered ==
    /\ Answered
    /\ resp.content.ep = "newaccount"
    /\ resp.chk.code = 200
    /\ "jwk" \in DOMAIN resp.content.protected
    /\ resp.content.payload = RegPayload

\* C1: a valid registration for a key K under which no account is registered
\* creates exactly one account and is answered 201 with the Location
\* {server}/acme/acct/{name} of that account; a valid registration for a key
\* under which an account is registered is answered 200 with the Location the
\* 201 that created the account carried, and the account table is unchanged.
C1_NewIsIdempotent ==
    [][\A w \in Workers :
         (ReplyStep(w) /\ IsRegistration(cur[w])) =>
            LET k == cur[w].protected.jwk
                r == resp'.response
            IN  IF Registered(accounts, k) = {}
                THEN /\ r.code = 201
                     /\ \E a \in accounts' \ accounts :
                          /\ accounts' = accounts \cup {a}
                          /\ KeyOf(a) = Thumbprint(k)
                          /\ r.header.Location = <<server_name, "/acme/acct/", a.name>>
                ELSE /\ r.code = 200
                     /\ r.header.Location = loc201[k]
                     /\ loc201[k] # <<>>
                     /\ accounts' = accounts]_vars

\* a re-registration has been answered 200 with the Location of the 201
C1_Witness ==
    /\ RegistrationAnswered
    /\ resp.response.code = 200
    /\ resp.response.header.Location = loc201[resp.content.protected.jwk]
    /\ Cardinality(Registered(accounts, resp.content.protected.jwk)) = 1

\* C2: in every reachable state the store holds at most one account for any
\* account key (the store has no deactivated accounts: deactivation deletes).
C2_OneAccountPerKey ==
    \A k \in Keys : Cardinality(Registered(accounts, k)) <= 1

\* a second registration of a key has been answered and its account is there
C2_Witness ==
    /\ RegistrationAnswered
    /\ resp.response.code = 200
    /\ Cardinality(accounts) = 2
    /\ \A k \in Keys : Cardinality(Registered(accounts, k)) = 1

Rejected(code, type) ==
    /\ resp.response.code = code
    /\ resp.response.data.kind = "problem"
    /\ resp.response.data.type = type

\* C4: no nonce lets more than one request through the envelope check, and
\* a request whose nonce was not in the pool when it arrived (used before, by
\* a request handled earlier or at the same time, or never issued) is answered
\* 400 badNonce and changes no account.
C4_NonceAcceptedOnce ==
    /\ \A n \in 0..MaxNonce : passed[n] <= 1
    /\ (Answered /\ ~resp.nonce_ok) =>
          /\ Rejected(400, "urn:ietf:params:acme:error:badNonce")
          /\ ~resp.changed

\* a request replaying a nonce that had let a request through was rejected
\* while that first request was still in the hands of another worker
C4_Witness ==
    /\ Answered
    /\ ~resp.nonce_ok
    /\ passed[resp.content.protected.nonce] = 1
    /\ \E v \in InFlight :
          cur[v].content.protected.nonce = resp.content.protected.nonce

\* C5: the account table changes only in the step that ends a request whose
\* envelope check returned 200; a request whose check returned another code
\* leaves the table unchanged and is answered with that code, error and detail.
C5_EnvelopeFirst ==
    [][/\ accounts' # accounts =>
            \E w \in Workers : ReplyStep(w) /\ cur[w].code = 200
       /\ \A w \in Workers :
            (ReplyStep(w) /\ cur[w].code # 200) =>
               /\ accounts' = accounts
               /\ resp'.response.code = cur[w].code
               /\ resp'.response.data.kind = "problem"
               /\ resp'.response.data.type = cur[w].message
               /\ resp'.response.data.detail = cur[w].detail]_vars

\* a deactivation the envelope check refused for its signature was answered
\* 401 and the account it names is still there
C5_Witness ==
    /\ Answered
    /\ resp.content.ep = "acct"
    /\ resp.chk.code = 401
    /\ Rejected(401, "urn:ietf:params:acme:error:unauthorized")
    /\ \E a \in accounts : a.name = name_get(resp.content.protected.kid)

\* C6: the step that ends a request to the account URL removes at most the
\* account the envelope check resolved from the kid, and leaves every other
\* account record as it was.
C6_OnlyTheSigner ==
    [][\A w \in Workers :
         (ReplyStep(w) /\ cur[w].content.ep = "acct") =>
            /\ accounts' \subseteq accounts
            /\ \A b \in accounts :
                 b.name # cur[w].account_name => b \in accounts']_vars

\* an account was deactivated by its owner while another account exists
C6_Witness ==
    /\ Answered
    /\ resp.content.ep = "acct"
    /\ resp.response.code = 200
    /\ resp.changed
    /\ accounts # {}
    /\ \A b \in accounts : b.name # resp.chk.account_name

\* resp answers a request to the account URL that passed the envelope check
\* and asks for deactivation (a string status that reads deactivated)
AsksDeactivation(payload) ==
    /\ "status" \in DOMAIN payload
    /\ payload.status.t = "str"
    /\ lower(payload.status.v) = "deactivated"

\* C7: an account record is never destroyed: the set of account names in the
\* store never shrinks in any step, so the record of an account whose
\* deactivation was answered 200 is still in the store.
C7_NeverDestroyed ==
    [][{a.name : a \in accounts} \subseteq {a.name : a \in accounts'}]_vars

\* C8: once the deactivation of an account has been answered 200, the
\* envelope check of every later request to the account URL that names the
\* same kid (and brings a nonce of the pool) ends with 401 unauthorized.
C8_UnauthorizedAfterDeactivation ==
    [][\A w \in Workers :
         ( /\ pc[w] = "idle" /\ pc'[w] = "checked"
           /\ cur'[w].content.ep = "acct"
           /\ cur'[w].nonce_ok
           /\ name_get(cur'[w].content.protected.kid) \in deactivated ) =>
            /\ cur'[w].code = 401
            /\ cur'[w].message = "urn:ietf:params:acme:error:unauthorized"]_vars

\* C9: a request to the account URL that passed the envelope check is
\* answered 200, with the signing account deactivated, when its payload has
\* status deactivated, and 400 malformed with no account changed for every
\* other payload.
C9_OnlyDeactivation ==
    (Answered /\ resp.content.ep = "acct" /\ resp.chk.code = 200) =>
        IF AsksDeactivation(resp.content.payload)
        THEN /\ resp.response.code = 200
             /\ \A a \in accounts : a.name # resp.chk.account_name
        ELSE /\ Rejected(400, "urn:ietf:params:acme:error:malformed")
             /\ ~resp.changed

\* C10: a newAccount request with onlyReturnExisting true that passed the
\* envelope check changes no account and is answered 200 with the Location
\* of the account registered under its key, RSA or EC, or with
\* accountDoesNotExist when none is registered under it.
C10_OnlyReturnExisting ==
    ( /\ Answered
      /\ resp.content.ep = "newaccount"
      /\ resp.chk.code = 200
      /\ "jwk" \in DOMAIN resp.content.protected
      /\ resp.content.payload = [onlyreturnexisting |-> TRUE] ) =>
        /\ ~resp.changed
        /\ LET reg == Registered(accounts, resp.content.protected.jwk)
           IN  IF reg # {}
               THEN /\ resp.response.code = 200
                    /\ \E a \in reg :
                         resp.response.header.Location
                            = <<server_name, "/acme/acct/", a.name>>
               ELSE /\ resp.response.data.kind = "problem"
                    /\ resp.response.data.type
                          = "urn:ietf:params:acme:error:accountDoesNotExist"

\* resp answers a newAccount request that passed the envelope check and
\* embeds its key
NewAccountAnswered ==
    /\ Answered
    /\ resp.content.ep = "newaccount"
    /\ resp.chk.code = 200
    /\ "jwk" \in DOMAIN resp.content.protected

\* the payload does not ask for onlyReturnExisting: absent, or present and false
NotOnlyReturnExisting(payload) ==
    "onlyreturnexisting" \in DOMAIN payload => ~payload.onlyreturnexisting

TosAgreed(payload) ==
    "termsofserviceagreed" \in DOMAIN payload /\ payload.termsofserviceagreed

\* the payload has at least one contact and every contact is a valid mailto
ValidContact(payload) ==
    /\ "contact" \in DOMAIN payload
    /\ Len(payload.contact) >= 1
    /\ \A i \in 1..Len(payload.contact) : payload.contact[i] = "mailto:a@example.org"

\* resp is a problem document of the given error type
RejectedAs(type) ==
    /\ resp.response.data.kind = "problem"
    /\ resp.response.data.type = type

\* C11: a newAccount request that passed the envelope check and whose payload
\* has no onlyReturnExisting, or has it false, is handled as a registration:
\* userActionRequired without agreed terms of service, else invalidContact
\* without a valid contact, else 200 or 201 with the Location of the account
\* registered under the embedded key.
C11_RegistrationUnlessOnlyReturnExisting ==
    (NewAccountAnswered /\ NotOnlyReturnExisting(resp.content.payload)) =>
        IF ~TosAgreed(resp.content.payload)
        THEN RejectedAs("urn:ietf:params:acme:error:userActionRequired")
             /\ ~resp.changed
        ELSE IF ~ValidContact(resp.content.payload)
        THEN RejectedAs("urn:ietf:params:acme:error:invalidContact")
             /\ ~resp.changed
        ELSE /\ resp.response.code \in {200, 201}
             /\ \E a \in Registered(accounts, resp.content.protected.jwk) :
                  resp.response.header.Location
                     = <<server_name, "/acme/acct/", a.name>>

\* resp answers a registration: a newAccount request that passed the envelope
\* check and whose payload has no onlyReturnExisting member
RegistrationRequestAnswered ==
    /\ Answered
    /\ resp.content.ep = "newaccount"
    /\ resp.chk.code = 200
    /\ "onlyreturnexisting" \notin DOMAIN resp.content.payload

\* C12: a registration that passed the envelope check and whose payload has
\* no termsOfServiceAgreed, or has it false, is answered with the problem
\* userActionRequired and creates no account.
C12_TosRequired ==
    (RegistrationRequestAnswered /\ ~TosAgreed(resp.content.payload)) =>
        /\ RejectedAs("urn:ietf:params:acme:error:userActionRequired")
        /\ resp.response.code \notin {200, 201}
        /\ ~resp.changed

\* a registration with a valid contact and no termsOfServiceAgreed member, for
\* a key without account, was rejected and the key still has no account
C12_Witness ==
    /\ RegistrationRequestAnswered
    /\ resp.content.payload = [contact |-> GoodContact]
    /\ RejectedAs("urn:ietf:params:acme:error:userActionRequired")
    /\ Registered(accounts, resp.content.protected.jwk) = {}

\* C13: a registration that passed the envelope check with the terms of
\* service agreed, and whose payload has no contact member, an empty contact
\* list or a contact that is not a valid mailto address, is answered with the
\* problem invalidContact and creates no account.
C13_ContactRequired ==
    ( /\ RegistrationRequestAnswered
      /\ TosAgreed(resp.content.payload)
      /\ ~ValidContact(resp.content.payload) ) =>
        /\ RejectedAs("urn:ietf:params:acme:error:invalidContact")
        /\ ~resp.changed

\* the body of resp is an account object with status valid
BodyStatusValid ==
    /\ resp.response.data.kind = "account"
    /\ resp.response.data.status = "valid"

\* C14: every response of Account.new with code 201 has the Location
\* {server}/acme/acct/{name} of an account record the request has just stored
\* under its key and a body with status valid; a body with status valid comes
\* with code 201 only.
C14_CreatedResponse ==
    (Answered /\ resp.content.ep = "newaccount") =>
        /\ resp.response.code = 201 =>
              /\ resp.changed
              /\ \E a \in Registered(accounts, resp.content.protected.jwk) :
                    resp.response.header.Location
                       = <<server_name, "/acme/acct/", a.name>>
              /\ BodyStatusValid
        /\ BodyStatusValid => resp.response.code = 201

\* a registration has been answered 201 with the account it stored
C14_Witness ==
    /\ Answered
    /\ resp.content.ep = "newaccount"
    /\ resp.response.code = 201
    /\ BodyStatusValid
    /\ resp.changed
    /\ name_get(resp.response.header.Location) \in {a.name : a \in accounts}

\* ----------------------------------------------- properties of the dispatcher
\* the dispatcher has emitted a response to the request handled last
Emitted == out.kind = "http"

\* the values of the headers of out with the given name
HeaderValues(name) ==
    {out.headers[i][2] : i \in {j \in 1..Len(out.headers) : out.headers[j][1] = name}}

\* C15: every response the dispatcher emits, 404 and 405 included, has a
\* Replay-Nonce header whose value is the nonce generated last and a Link
\* header with rel="index"; the nonce generated last was in no response before.
C15_NonceAndLinkOnEveryResponse ==
    Emitted =>
        /\ HeaderValues("Replay-Nonce") = {nextNonce - 1}
        /\ \E l \in HeaderValues("Link") : l.rel = "index"

\* the problem types of the responses of the model
AcmeErrors ==
    { "urn:ietf:params:acme:error:badNonce",
      "urn:ietf:params:acme:error:malformed",
      "urn:ietf:params:acme:error:unauthorized",
      "urn:ietf:params:acme:error:accountDoesNotExist",
      "urn:ietf:params:acme:error:userActionRequired",
      "urn:ietf:params:acme:error:invalidContact",
      "urn:ietf:params:acme:error:serverInternal" }

\* C16: every response the dispatcher emits with a status of 400 or more has
\* the one Content-Type application/problem+json and a body that is a problem
\* document: a type that is an urn:ietf:params:acme:error URI and a detail.
C16_ErrorsAreProblemDocuments ==
    (Emitted /\ out.status[1] >= 400) =>
        /\ HeaderValues("Content-Type") = {"application/problem+json"}
        /\ out.body.kind = "problem"
        /\ out.body.type \in AcmeErrors
        /\ out.body.detail # None

\* C17: every request handed to the dispatcher ends with a response the
\* dispatcher emits, and when the service call raised an exception that
\* response is a 500 with the problem type serverInternal.
C17_ExceptionsBecomeServerInternal ==
    out.kind # "none" =>
        /\ Emitted
        /\ out.exc # None =>
              /\ out.status[1] = 500
              /\ out.body.kind = "problem"
              /\ out.body.type = "urn:ietf:params:acme:error:serverInternal"

C19_CertificateOnlyForOwner ==
    (Emitted /\ out.callback = "cert") =>
        /\ out.body.kind = "pem" =>
              \E c \in certificates :
                 /\ c.name = out.path[Len(out.path)]
                 /\ c.pem = out.body.pem
                 /\ c.owner = out.account
        /\ out.method = "GET" =>
              /\ out.body.kind = "problem"
              /\ out.body.type = "urn:ietf:params:acme:error:unauthorized"

\* the callbacks of the endpoints that expect the envelope; acct serves the
\* account URLs and /acme/key-change
EnvelopeCallbacks ==
    {"acct", "authz", "cert", "chall", "newaccount", "neworders", "order",
     "revokecert", "trigger"}

\* C20: a request with a method other than POST to an endpoint that expects
\* the envelope, the account URLs and /acme/key-change included, is answered
\* 405, no service method is called for it and the store does not change.
C20_PostOnly ==
    (out.kind # "none" /\ out.callback \in EnvelopeCallbacks /\ out.method # "POST") =>
        /\ Emitted
        /\ out.status[1] = 405
        /\ out.service = "none"
        /\ ~out.changed

\* resp answers a newAccount request without onlyReturnExisting member,
\* whatever the envelope check made of it
RegistrationAttempted ==
    /\ Answered
    /\ resp.content.ep = "newaccount"
    /\ "onlyreturnexisting" \notin DOMAIN resp.content.payload

\* the contact member is missing or has an entry that is no valid mailto
ContactRejected(payload) ==
    \/ "contact" \notin DOMAIN payload
    \/ \E i \in 1..Len(payload.contact) : payload.contact[i] # "mailto:a@example.org"

\* C21: Account.new answers with the error of the first check that fails, in
\* the order envelope check, terms of service, contact: a request the envelope
\* check refused gets the envelope's code and error whatever its payload, a
\* request that fails both the terms of service and the contact requirement
\* gets userActionRequired, one that fails only the contact check gets
\* invalidContact, and an account is inserted only when the envelope check
\* returned 200, the terms are agreed and the contact is valid.
C21_ChecksInOrder ==
    RegistrationAttempted =>
        /\ IF resp.chk.code # 200
           THEN /\ resp.response.code = resp.chk.code
                /\ RejectedAs(resp.chk.message)
           ELSE IF ~TosAgreed(resp.content.payload)
           THEN RejectedAs("urn:ietf:params:acme:error:userActionRequired")
           ELSE ContactRejected(resp.content.payload) =>
                   RejectedAs("urn:ietf:params:acme:error:invalidContact")
        /\ resp.changed =>
              /\ resp.chk.code = 200
              /\ TosAgreed(resp.content.payload)
              /\ ValidContact(resp.content.payload)

\* a request that passed the envelope check, refuses the terms of service
\* and has no contact was answered userActionRequired
C21_Witness ==
    /\ RegistrationAttempted
    /\ resp.chk.code = 200
    /\ resp.content.payload = [termsofserviceagreed |-> FALSE]
    /\ RejectedAs("urn:ietf:params:acme:error:userActionRequired")
    /\ ~resp.changed

\* C22: a response of Account.new with a code other than 200 and 201 has no
\* Location header, its body is the problem document and has none of the
\* members of an account, and the account table is as it was before the call.
C22_FailureChangesNothing ==
    (Answered /\ resp.content.ep = "newaccount"
              /\ resp.response.code \notin {200, 201}) =>
        /\ resp.response.header.Location = <<>>
        /\ resp.response.data.kind = "problem"
        /\ {"contact", "orders"} \cap DOMAIN resp.response.data = {}
        /\ ~resp.changed

\* a registration with an empty contact list was refused by Account.add
\* while the store held an account, and the store still holds just that one
C22_Witness ==
    /\ Answered
    /\ resp.content.ep = "newaccount"
    /\ resp.chk.code = 200
    /\ resp.content.payload = [termsofserviceagreed |-> TRUE, contact |-> <<>>]
    /\ resp.response.code = 400
    /\ resp.response.header.Location = <<>>
    /\ ~resp.changed
    /\ Cardinality(accounts) = 1
    /\ Registered(accounts, resp.content.protected.jwk) = {}

\* path begins with p, and path with exactly that beginning removed
StartsWith(path, p) == Len(path) >= Len(p) /\ SubSeq(path, 1, Len(p)) = p
WithoutPrefix(path, p) ==
    IF StartsWith(path, p) THEN SubSeq(path, Len(p) + 1, Len(path)) ELSE path

\* C23: the dispatcher removes exactly the configured prefix (url_prefix and
\* a slash, by default the slash alone) from the request path and hands the
\* request to the callback of the first entry of URLS that matches what
\* remains, or to not_found when none does; under every configured url_prefix
\* P the path P + '/acme/newaccount' reaches the newaccount callback.
C23_ExactPrefixFirstMatch ==
    out.kind # "none" =>
        /\ out.callback = Route(WithoutPrefix(out.path, prefix(CONFIG)))
        /\ out.path = Mount(CONFIG) \o NewAccountPath => out.callback = "newaccount"

====
